---- MODULE Spec2Model ----
(***************************************************************************)
(* A model of check.py, the registry linter: main() lists the appliance,   *)
(* symbols and packer directories and calls check_appliance, check_symbol  *)
(* and check_packer on the entries; a hard error ends the process with     *)
(* exit code 1, findings that are only advisory are counted in `warnings`. *)
(*                                                                         *)
(* What lies outside check.py is an input of the model:                    *)
(*   - jsonschema.validate: a descriptor carries `conforms`, the set of    *)
(*     schema versions whose (tightened) schema accepts its content once   *)
(*     registry_version is set to that version;                            *)
(*   - the file system: an entry of a listing carries what the paths the   *)
(*     code opens hold, in the listed directory and in the directory the   *)
(*     code's default argument names;                                      *)
(*   - identify / picture.get_size: the height of an image.                *)
(* An uncaught Python exception ends the process with a traceback and      *)
(* exit code 1; its diagnostic kind is the exception's name.               *)
(***************************************************************************)
EXTENDS Integers, Sequences, FiniteSets, TLC

VARIABLES
    args,             \* the parsed command line: symbols_dir, packer_dir
    schema_files_ok,  \* schemas/appliance_v{3..6}.json exist and parse
    pc,               \* where main() is
    current,          \* the listing entry main() has handed to a checker
    n_listed,         \* entries of the current listing already taken
    APPLIANCE_IDS,    \* the global list of appliance ids seen
    warnings,         \* the global warning counter
    exit_code,        \* the process's exit code once pc = "exited"
    diag,             \* the diagnostic of the exit
    summary,          \* the final line main() printed: its text and the count in it
    seen_filenames,   \* history: filenames of the image records accepted in the run
    seen_md5sums,     \* history: md5sums of the image records accepted in the run
    advisories,       \* history: advisory findings of the descriptors accepted so far
    document,         \* a schema document as loaded (SpecSchema)
    tightened         \* no_additional_properties has been applied to it

vars == <<args, schema_files_ok, pc, current, n_listed, APPLIANCE_IDS, warnings,
          exit_code, diag, summary, seen_filenames, seen_md5sums, advisories,
          document, tightened>>

schema_vars == <<document, tightened>>
run_vars == <<args, schema_files_ok, pc, current, n_listed, APPLIANCE_IDS, warnings,
              exit_code, diag, summary, seen_filenames, seen_md5sums, advisories>>

(***************************************************************************)
(* Program constants.                                                      *)
(***************************************************************************)
SCHEMA_VERSIONS == <<3, 4, 5, 6>>

MAX_SYMBOL_HEIGHT == 70

DEFAULT_SYMBOLS_DIR == "symbols"

DEFAULT_PACKER_DIR == "packer"

(***************************************************************************)
(* Bounds of the explored inputs.                                          *)
(***************************************************************************)
\* files taken from the appliance directory in one run
MaxAppliances == 2

\* files taken from the symbols directory in one run
MaxSymbols == 1

\* children taken from the packer directory in one run
MaxPackers == 1

\* image records + version records + image references of a descriptor (SpecImages)
MaxBody == 4

\* the same measure for the descriptors of the whole-run specification (Spec)
MaxRunBody == 1

\* nesting depth of a schema document (SpecSchema)
MaxDepth == 3

Range(s) == {s[i] : i \in DOMAIN s}

SeqsUpTo(S, n) == UNION {[1..k -> S] : k \in 0..n}

RECURSIVE SumLen(_, _)
SumLen(s, i) == IF i > Len(s) THEN 0 ELSE Len(s[i].images) + SumLen(s, i + 1)

Filenames == {"f1", "f2"}

Md5sums == {"m1", "m2"}

VersionNames == {"v1", "v2"}

ApplianceIds == {"a1", "a2"}

\* registry_version values tried: one below the supported list, its lowest, one above it
RegistryVersions == {SCHEMA_VERSIONS[1] - 1, SCHEMA_VERSIONS[1], SCHEMA_VERSIONS[1] + 1}

ConformsSets == SUBSET {SCHEMA_VERSIONS[1], SCHEMA_VERSIONS[1] + 1}

ImageRecords == [filename : Filenames, md5sum : Md5sums, version : VersionNames]

\* a version record: its name and the values of its images mapping, in dict order
VersionRecords == [name : VersionNames, images : SeqsUpTo(Filenames, MaxBody \div 2)]

BodySize(b) == Len(b.images) + Len(b.versions) + SumLen(b.versions, 1)

\* the images / versions part of a descriptor; has_images, has_versions: the key is present
Bodies ==
    {b \in [has_images : BOOLEAN, images : SeqsUpTo(ImageRecords, MaxBody \div 2),
            has_versions : BOOLEAN, versions : SeqsUpTo(VersionRecords, MaxBody \div 2)] :
        /\ (~b.has_images => b.images = <<>>)
        /\ (~b.has_versions => b.versions = <<>>)
        /\ BodySize(b) <= MaxBody}

Descriptor(rv, cf, id, b) ==
    [registry_version |-> rv, conforms |-> cf, appliance_id |-> id,
     has_images |-> b.has_images, images |-> b.images,
     has_versions |-> b.has_versions, versions |-> b.versions]

\* the descriptors of Spec: every schema outcome, small bodies
RunDescriptors ==
    {Descriptor(rv, cf, id, b) : rv \in RegistryVersions, cf \in ConformsSets,
        id \in ApplianceIds, b \in {x \in Bodies : BodySize(x) <= MaxRunBody}}

\* the descriptors of SpecImages: lowest or next registry version, every body
ImageDescriptors ==
    {Descriptor(SCHEMA_VERSIONS[1], {SCHEMA_VERSIONS[1]}, id, b) :
        id \in ApplianceIds, b \in Bodies}

NoDescriptor == Descriptor(0, {}, "", [has_images |-> FALSE, images |-> <<>>,
                                       has_versions |-> FALSE, versions |-> <<>>])

\* an entry of the appliance directory: kind is "other" (no .gns3a suffix),
\* "malformed" (json.load fails) or "appliance"
ApplianceEntry(kind, descriptor) == [pass |-> "appliance", kind |-> kind, d |-> descriptor]

NoEntry == [pass |-> "none"]

NoDiag == [kind |-> "", image |-> "", version |-> ""]

\* nothing printed by lines 185-188 yet
NoSummary == [line |-> "", count |-> 0]

\* a JSON value that is not a dict
NonDict == [dict |-> FALSE]

Diag(kind, image, version) == [kind |-> kind, image |-> image, version |-> version]

(***************************************************************************)
(* validate_schema: the result is [exited, diag, warnings].                *)
(***************************************************************************)
Exit1(d, w) == [exited |-> TRUE, diag |-> d, warnings |-> w]

Return(w) == [exited |-> FALSE, diag |-> NoDiag, warnings |-> w]

\* validate_schema probing the declared version again: registry_version not decremented
validate_schema_same_version(appliance_json, w) ==
    LET version == appliance_json.registry_version IN
    IF version \notin Range(SCHEMA_VERSIONS)
    THEN Exit1(Diag("Schema version is not supported", "", ""), w)
    ELSE IF version \notin appliance_json.conforms
    THEN Exit1(Diag("ValidationError", "", ""), w)
    ELSE IF version # SCHEMA_VERSIONS[1] /\ version \in appliance_json.conforms
    THEN Return(w + 1)
    ELSE Return(w)

validate_schema(appliance_json, w) ==
    LET version == appliance_json.registry_version IN
    IF version \notin Range(SCHEMA_VERSIONS)
    THEN Exit1(Diag("Schema version is not supported", "", ""), w)
    ELSE IF version \notin appliance_json.conforms
    THEN Exit1(Diag("ValidationError", "", ""), w)
    ELSE IF version # SCHEMA_VERSIONS[1] /\ (version - 1) \in appliance_json.conforms
    THEN Return(w + 1)
    ELSE Return(w)

(***************************************************************************)
(* check_appliance, lines 95-123: the image loop and the version loop.     *)
(* `images` is the local dict filename -> version, `md5sums` the local set.*)
(***************************************************************************)
\* versions_found looking at the first version only
versions_found_first_only(appliance_json, image) ==
    /\ Len(appliance_json.versions) > 0
    /\ image.filename \in Range(appliance_json.versions[1].images)

versions_found(appliance_json, image) ==
    \E j \in 1..Len(appliance_json.versions) :
        image.filename \in Range(appliance_json.versions[j].images)

\* line 97
duplicate_filename(image, images) == image.filename \in DOMAIN images

\* duplicate_md5sum looking the filename up in the md5sums
duplicate_md5sum_of_filename(image, md5sums) == image.filename \in md5sums

\* line 100
duplicate_md5sum(image, md5sums) == image.md5sum \in md5sums

RECURSIVE image_loop(_, _, _, _, _)
image_loop(appliance_json, i, images, md5sums, w) ==
    IF i > Len(appliance_json.images)
    THEN [exited |-> FALSE, diag |-> NoDiag, warnings |-> w,
          images |-> images, md5sums |-> md5sums]
    ELSE LET image == appliance_json.images[i] IN
         IF duplicate_filename(image, images)
         THEN [exited |-> TRUE, diag |-> Diag("Duplicate image filename", image.filename, ""),
               warnings |-> w, images |-> images, md5sums |-> md5sums]
         ELSE IF duplicate_md5sum(image, md5sums)
         THEN [exited |-> TRUE, diag |-> Diag("Duplicate image md5sum", image.filename, ""),
               warnings |-> w, images |-> images, md5sums |-> md5sums]
         ELSE IF ~appliance_json.has_versions
         THEN [exited |-> TRUE, diag |-> Diag("KeyError", "", ""),
               warnings |-> w, images |-> images, md5sums |-> md5sums]
         ELSE image_loop(appliance_json, i + 1,
                         (image.filename :> image.version) @@ images,
                         md5sums \cup {image.md5sum},
                         IF versions_found(appliance_json, image) THEN w ELSE w + 1)

\* relation_loop leaving the loop at the first match
RECURSIVE relation_loop_stops_at_match(_, _, _, _)
relation_loop_stops_at_match(version, k, images, version_match) ==
    IF k > Len(version.images) \/ version_match
    THEN [missing |-> "", version_match |-> version_match]
    ELSE IF version.images[k] \notin DOMAIN images
    THEN [missing |-> version.images[k], version_match |-> version_match]
    ELSE relation_loop_stops_at_match(version, k + 1, images,
                                      images[version.images[k]] = version.name)

\* the inner loop over version['images'].values(): the first filename that is
\* not declared ("" if none), and version_match when the loop ends
RECURSIVE relation_loop(_, _, _, _)
relation_loop(version, k, images, version_match) ==
    IF k > Len(version.images)
    THEN [missing |-> "", version_match |-> version_match]
    ELSE IF version.images[k] \notin DOMAIN images
    THEN [missing |-> version.images[k], version_match |-> version_match]
    ELSE relation_loop(version, k + 1, images,
                       version_match \/ images[version.images[k]] = version.name)

\* version_loop returning after the first version
version_loop_first_only(appliance_json, j, images, w) ==
    IF j > Len(appliance_json.versions)
    THEN Return(w)
    ELSE LET version == appliance_json.versions[j]
             r == relation_loop(version, 1, images, FALSE)
         IN  IF r.missing # ""
             THEN Exit1(Diag("Missing relation", r.missing, version.name), w)
             ELSE IF ~r.version_match
             THEN Exit1(Diag("Version mismatch", "", version.name), w)
             ELSE Return(w)

RECURSIVE version_loop(_, _, _, _)
version_loop(appliance_json, j, images, w) ==
    IF j > Len(appliance_json.versions)
    THEN Return(w)
    ELSE LET version == appliance_json.versions[j]
             r == relation_loop(version, 1, images, FALSE)
         IN  IF r.missing # ""
             THEN Exit1(Diag("Missing relation", r.missing, version.name), w)
             ELSE IF ~r.version_match
             THEN Exit1(Diag("Version mismatch", "", version.name), w)
             ELSE version_loop(appliance_json, j + 1, images, w)

\* lines 95-123; the result also carries the local registries as they end
check_images(appliance_json, w) ==
    IF ~appliance_json.has_images
    THEN [exited |-> FALSE, diag |-> NoDiag, warnings |-> w, images |-> <<>>, md5sums |-> {}]
    ELSE LET il == image_loop(appliance_json, 1, <<>>, {}, w) IN
         IF il.exited THEN il
         ELSE IF ~appliance_json.has_versions
         THEN [il EXCEPT !.exited = TRUE, !.diag = Diag("KeyError", "", "")]
         ELSE LET vl == version_loop(appliance_json, 1, il.images, il.warnings) IN
              [il EXCEPT !.exited = vl.exited, !.diag = vl.diag]

\* duplicate_id never looking at the first id of the list
duplicate_id_skips_first(appliance_id, ids) == appliance_id \in Range(SubSeq(ids, 2, Len(ids)))

\* lines 89-93: the duplicate UUID check; TRUE when the id is already listed
duplicate_id(appliance_id, ids) == appliance_id \in Range(ids)

\* check_appliance on an entry of the listing: [exited, diag, warnings, ids, images, md5sums]
check_appliance(entry, ids, w) ==
    LET dead(kind) == [exited |-> TRUE, diag |-> Diag(kind, "", ""), warnings |-> w,
                       ids |-> ids, images |-> <<>>, md5sums |-> {}]
    IN
    IF ~schema_files_ok THEN dead("FileNotFoundError")
    ELSE IF entry.kind = "malformed" THEN dead("JSONDecodeError")
    ELSE LET appliance_json == entry.d
             vs == validate_schema(appliance_json, w)
         IN  IF vs.exited
             THEN [exited |-> TRUE, diag |-> vs.diag, warnings |-> vs.warnings,
                   ids |-> ids, images |-> <<>>, md5sums |-> {}]
             ELSE IF duplicate_id(appliance_json.appliance_id, ids)
             THEN [exited |-> TRUE, diag |-> Diag("Duplicate appliance UUID detected", "", ""),
                   warnings |-> vs.warnings, ids |-> ids, images |-> <<>>, md5sums |-> {}]
             ELSE LET ci == check_images(appliance_json, vs.warnings) IN
                  [exited |-> ci.exited, diag |-> ci.diag, warnings |-> ci.warnings,
                   ids |-> Append(ids, appliance_json.appliance_id),
                   images |-> ci.images, md5sums |-> ci.md5sums]

(***************************************************************************)
(* What a descriptor is, said without the code's loops (for the history    *)
(* variables and the properties).                                          *)
(***************************************************************************)
Declared(d) == {d.images[i].filename : i \in DOMAIN d.images}

Referenced(d) == UNION {Range(d.versions[j].images) : j \in DOMAIN d.versions}

UnusedImages(d) == {i \in DOMAIN d.images : d.images[i].filename \notin Referenced(d)}

DowngradePossible(d) ==
    /\ d.registry_version # SCHEMA_VERSIONS[1]
    /\ (d.registry_version - 1) \in d.conforms

(***************************************************************************)
(* main(): the appliance pass.                                             *)
(***************************************************************************)
Init ==
    /\ args \in [symbols_dir : {DEFAULT_SYMBOLS_DIR, "icons"},
                 packer_dir : {DEFAULT_PACKER_DIR, "builds"}]
    /\ schema_files_ok \in BOOLEAN
    /\ pc = "appliances"
    /\ current = NoEntry
    /\ n_listed = 0
    /\ APPLIANCE_IDS = <<>>
    /\ warnings = 0
    /\ exit_code = 0
    /\ diag = NoDiag
    /\ summary = NoSummary
    /\ seen_filenames = {}
    /\ seen_md5sums = {}
    /\ advisories = [downgrade |-> 0, unused |-> 0]
    /\ document = NonDict
    /\ tightened = FALSE

\* lines 173-175: the loop takes the next entry; one without the suffix is passed over
NextAppliance(entry) ==
    /\ pc = "appliances"
    /\ n_listed < MaxAppliances
    /\ n_listed' = n_listed + 1
    /\ IF entry.kind = "other"
       THEN UNCHANGED <<pc, current>>
       ELSE pc' = "check_appliance" /\ current' = entry
    /\ UNCHANGED <<args, schema_files_ok, APPLIANCE_IDS, warnings, exit_code, diag,
                   summary, seen_filenames, seen_md5sums, advisories, schema_vars>>

\* line 176: check_appliance(appliance, args.appliance_dir)
CheckAppliance ==
    /\ pc = "check_appliance"
    /\ LET r == check_appliance(current, APPLIANCE_IDS, warnings) IN
       /\ APPLIANCE_IDS' = r.ids
       /\ warnings' = r.warnings
       /\ IF r.exited
          THEN /\ pc' = "exited"
               /\ exit_code' = 1
               /\ diag' = r.diag
               /\ UNCHANGED <<current, seen_filenames, seen_md5sums, advisories>>
          ELSE /\ pc' = "appliances"
               /\ current' = NoEntry
               /\ seen_filenames' = seen_filenames \cup DOMAIN r.images
               /\ seen_md5sums' = seen_md5sums \cup r.md5sums
               /\ advisories' =
                      [downgrade |-> advisories.downgrade
                                      + (IF DowngradePossible(current.d) THEN 1 ELSE 0),
                       unused |-> advisories.unused + Cardinality(UnusedImages(current.d))]
               /\ UNCHANGED <<exit_code, diag>>
    /\ UNCHANGED <<args, schema_files_ok, n_listed, summary, schema_vars>>

\* line 177: the appliance listing is exhausted
EndAppliances ==
    /\ pc = "appliances"
    /\ pc' = "symbols"
    /\ n_listed' = 0
    /\ UNCHANGED <<args, schema_files_ok, current, APPLIANCE_IDS, warnings, exit_code,
                   diag, summary, seen_filenames, seen_md5sums, advisories, schema_vars>>

(***************************************************************************)
(* main(): the symbols pass.  An entry of os.listdir(args.symbols_dir):    *)
(* `listed` is what the listed directory holds for the name (the companion *)
(* .txt file, the image's height), `dflt` what the directory named by      *)
(* check_symbol's default argument holds for the same name.                *)
(***************************************************************************)
SymbolHeights == {MAX_SYMBOL_HEIGHT - 1, MAX_SYMBOL_HEIGHT, MAX_SYMBOL_HEIGHT + 1}

SymbolFiles == [svg : BOOLEAN, txt : BOOLEAN, height : SymbolHeights]

SymbolEntries(dir) ==
    {[pass |-> "symbol", is_svg |-> s, listed |-> l, dflt |-> d] :
        s \in BOOLEAN,
        l \in {x \in SymbolFiles : x.svg},
        d \in {x \in SymbolFiles : ~x.svg => x.height = MAX_SYMBOL_HEIGHT}}

\* the entries a listing of `dir` can give: in the default directory both views are one
SymbolListing(dir) ==
    {e \in SymbolEntries(dir) : dir = DEFAULT_SYMBOLS_DIR => e.dflt = e.listed}

\* check_symbol(symbol, symbols_path): `at` is what symbols_path holds for the name
check_symbol(at) ==
    IF ~at.txt
    THEN [exited |-> TRUE, diag |-> Diag("Missing licence", "", "")]
    ELSE IF ~at.svg
    THEN [exited |-> TRUE, diag |-> Diag("FileNotFoundError", "", "")]
    ELSE IF at.height > MAX_SYMBOL_HEIGHT
    THEN [exited |-> TRUE, diag |-> Diag("Symbol height is too big", "", "")]
    ELSE [exited |-> FALSE, diag |-> NoDiag]

\* line 181: main calls check_symbol(symbol), so symbols_path is its default
symbol_call(entry) == check_symbol(entry.dflt)

\* lines 178-180
NextSymbol(entry) ==
    /\ pc = "symbols"
    /\ n_listed < MaxSymbols
    /\ n_listed' = n_listed + 1
    /\ IF ~entry.is_svg
       THEN UNCHANGED <<pc, current>>
       ELSE pc' = "check_symbol" /\ current' = entry
    /\ UNCHANGED <<args, schema_files_ok, APPLIANCE_IDS, warnings, exit_code, diag,
                   summary, seen_filenames, seen_md5sums, advisories, schema_vars>>

\* line 181
CheckSymbol ==
    /\ pc = "check_symbol"
    /\ LET r == symbol_call(current) IN
       IF r.exited
       THEN /\ pc' = "exited"
            /\ exit_code' = 1
            /\ diag' = r.diag
            /\ UNCHANGED current
       ELSE /\ pc' = "symbols"
            /\ current' = NoEntry
            /\ UNCHANGED <<exit_code, diag>>
    /\ UNCHANGED <<args, schema_files_ok, n_listed, APPLIANCE_IDS, warnings, summary,
                   seen_filenames, seen_md5sums, advisories, schema_vars>>

\* line 182: the symbols listing is exhausted
EndSymbols ==
    /\ pc = "symbols"
    /\ pc' = "packer"
    /\ n_listed' = 0
    /\ UNCHANGED <<args, schema_files_ok, current, APPLIANCE_IDS, warnings, exit_code,
                   diag, summary, seen_filenames, seen_md5sums, advisories, schema_vars>>

(***************************************************************************)
(* main(): the packer pass.  A child of the packer directory: `listed` is  *)
(* the child in the listed directory, `dflt` the path of the same name in  *)
(* the directory the code's default names; is_dir, and the kinds of files  *)
(* a directory holds ("json_ok", "json_bad": a .json file that parses or   *)
(* not; "other": a file without the suffix).                               *)
(***************************************************************************)
FileKinds == {"json_ok", "json_bad", "other"}

PackerChildren == {c \in [is_dir : BOOLEAN, files : SUBSET FileKinds] : ~c.is_dir => c.files = {}}

PackerEntries == {[pass |-> "packer", listed |-> l, dflt |-> d] : l \in PackerChildren, d \in PackerChildren}

PackerListing(dir) == {e \in PackerEntries : dir = DEFAULT_PACKER_DIR => e.dflt = e.listed}

\* check_packer(packer, packer_path): `at` is what packer_path holds under the
\* name (line 133 opens under 'packer', the value packer_path has in the only call)
check_packer(at) ==
    IF ~at.is_dir
    THEN [exited |-> FALSE, diag |-> NoDiag]
    ELSE IF "json_bad" \in at.files
    THEN [exited |-> TRUE, diag |-> Diag("JSONDecodeError", "", "")]
    ELSE [exited |-> FALSE, diag |-> NoDiag]

\* line 184: main calls check_packer(packer), so packer_path is its default
packer_call(entry) == check_packer(entry.dflt)

\* line 183
NextPacker(entry) ==
    /\ pc = "packer"
    /\ n_listed < MaxPackers
    /\ n_listed' = n_listed + 1
    /\ pc' = "check_packer"
    /\ current' = entry
    /\ UNCHANGED <<args, schema_files_ok, APPLIANCE_IDS, warnings, exit_code, diag,
                   summary, seen_filenames, seen_md5sums, advisories, schema_vars>>

\* line 184
CheckPacker ==
    /\ pc = "check_packer"
    /\ LET r == packer_call(current) IN
       IF r.exited
       THEN /\ pc' = "exited"
            /\ exit_code' = 1
            /\ diag' = r.diag
            /\ UNCHANGED current
       ELSE /\ pc' = "packer"
            /\ current' = NoEntry
            /\ UNCHANGED <<exit_code, diag>>
    /\ UNCHANGED <<args, schema_files_ok, n_listed, APPLIANCE_IDS, warnings, summary,
                   seen_filenames, seen_md5sums, advisories, schema_vars>>

\* lines 185-188: the packer listing is exhausted; the summary, then the normal exit
\* final_summary taking a single warning for none
final_summary_above_one(w) ==
    IF w > 1
    THEN [line |-> "warning!", count |-> w]
    ELSE [line |-> "Everything is ok!", count |-> 0]

final_summary(w) ==
    IF w # 0
    THEN [line |-> "warning!", count |-> w]
    ELSE [line |-> "Everything is ok!", count |-> 0]

Summary ==
    /\ pc = "packer"
    /\ pc' = "exited"
    /\ summary' = final_summary(warnings)
    /\ exit_code' = 0
    /\ UNCHANGED <<args, schema_files_ok, current, n_listed, APPLIANCE_IDS, warnings,
                   diag, seen_filenames, seen_md5sums, advisories, schema_vars>>

\* lines 67-69, 171: SIGINT while main() runs
signal_abort ==
    /\ pc # "exited"
    /\ pc' = "exited"
    /\ exit_code' = 0
    /\ diag' = Diag("Check aborted", "", "")
    /\ current' = NoEntry
    /\ UNCHANGED <<args, schema_files_ok, n_listed, APPLIANCE_IDS, warnings, summary,
                   seen_filenames, seen_md5sums, advisories, schema_vars>>

(***************************************************************************)
(* The whole run.                                                          *)
(***************************************************************************)
\* the entries os.listdir(args.appliance_dir) can give
ApplianceListing(descriptors) ==
    {ApplianceEntry(kind, NoDescriptor) : kind \in {"other", "malformed"}}
        \cup {ApplianceEntry("appliance", d) : d \in descriptors}

AppliancePass(descriptors) ==
    \/ pc = "appliances" /\ \E e \in ApplianceListing(descriptors) : NextAppliance(e)
    \/ CheckAppliance
    \/ EndAppliances

SymbolPass ==
    \/ pc = "symbols" /\ \E e \in SymbolListing(args.symbols_dir) : NextSymbol(e)
    \/ CheckSymbol
    \/ EndSymbols

PackerPass ==
    \/ pc = "packer" /\ \E e \in PackerListing(args.packer_dir) : NextPacker(e)
    \/ CheckPacker
    \/ Summary

Next ==
    \/ AppliancePass(RunDescriptors)
    \/ SymbolPass
    \/ PackerPass
    \/ signal_abort

Spec == Init /\ [][Next]_vars

(***************************************************************************)
(* The run over descriptors with every images / versions body, the         *)
(* symbols and packer directories empty.                                   *)
(***************************************************************************)
NextImages ==
    \/ AppliancePass(ImageDescriptors)
    \/ EndSymbols
    \/ Summary
    \/ signal_abort

InitImages ==
    /\ Init
    /\ args = [symbols_dir |-> DEFAULT_SYMBOLS_DIR, packer_dir |-> DEFAULT_PACKER_DIR]

SpecImages == InitImages /\ [][NextImages]_vars

(***************************************************************************)
(* The Schema Store: no_additional_properties on one schema document.      *)
(* A JSON value is a dict, [dict |-> TRUE, ...], or anything else,         *)
(* NonDict.  Of a dict the model keeps the three keys the code reads:      *)
(*   ap     'additionalProperties': "absent", or the flag given            *)
(*   items  <<>> when the key is absent, else <<its value>>                *)
(*   props  <<>> when 'properties' is absent, else <<the map>>, a function *)
(*          from property names to JSON values                             *)
(***************************************************************************)
PropertyNames == {"a"}

Flags == {"absent", "true", "false"}

\* the dicts nested to `depth`: one is an object schema (it may declare
\* 'properties') or an array schema (it declares 'items'), not both
RECURSIVE SchemaDicts(_)
SchemaDicts(depth) ==
    IF depth = 0
    THEN [dict : {TRUE}, ap : Flags, items : {<<>>}, props : {<<>>, << <<>> >>}]
    ELSE LET values == SchemaDicts(depth - 1) \cup {NonDict} IN
         [dict : {TRUE}, ap : Flags, items : {<<>>},
          props : {<<>>} \cup {<<m>> : m \in UNION {[S -> values] : S \in SUBSET PropertyNames}}]
         \cup [dict : {TRUE}, ap : Flags, items : {<<c>> : c \in values}, props : {<<>>}]

SchemaDocuments == SchemaDicts(MaxDepth)

\* lines 37-42 on the dict the name `schema` is bound to after lines 35-36
RECURSIVE no_additional_properties(_), close_properties(_)
close_properties(schema) ==
    IF ~schema.dict \/ schema.props = <<>>
    THEN schema
    ELSE [schema EXCEPT
            !.ap = IF @ = "absent" THEN "false" ELSE @,
            !.props = << [key \in DOMAIN schema.props[1] |->
                            IF schema.props[1][key].dict
                            THEN no_additional_properties(schema.props[1][key])
                            ELSE schema.props[1][key]] >>]

\* lines 34-42: the document after the call (the code changes it in place)
no_additional_properties(schema) ==
    IF schema.items # <<>>
    THEN [schema EXCEPT !.items = <<close_properties(schema.items[1])>>]
    ELSE close_properties(schema)

InitSchema ==
    /\ document \in SchemaDocuments
    /\ tightened = FALSE
    /\ args = [symbols_dir |-> DEFAULT_SYMBOLS_DIR, packer_dir |-> DEFAULT_PACKER_DIR]
    /\ schema_files_ok = TRUE
    /\ pc = "appliances"
    /\ current = NoEntry
    /\ n_listed = 0
    /\ APPLIANCE_IDS = <<>>
    /\ warnings = 0
    /\ exit_code = 0
    /\ diag = NoDiag
    /\ summary = NoSummary
    /\ seen_filenames = {}
    /\ seen_md5sums = {}
    /\ advisories = [downgrade |-> 0, unused |-> 0]

\* lines 80-82: a schema file is loaded and tightened
LoadSchema ==
    /\ ~tightened
    /\ document' = no_additional_properties(document)
    /\ tightened' = TRUE
    /\ UNCHANGED run_vars

NextSchema == LoadSchema

SpecSchema == InitSchema /\ [][NextSchema]_vars

\* every dict of the document, at any depth, that declares 'properties'
\* carries an 'additionalProperties'
RECURSIVE Closed(_)
Closed(value) ==
    \/ ~value.dict
    \/ /\ value.props # <<>> => value.ap # "absent"
       /\ value.items # <<>> => Closed(value.items[1])
       /\ value.props # <<>> => \A key \in DOMAIN value.props[1] : Closed(value.props[1][key])

(***************************************************************************)
(* The properties.  A step of check_appliance, check_symbol or             *)
(* check_packer is a step that leaves the call's pc and is not the SIGINT  *)
(* handler's; `current` is the entry the call is given.                    *)
(***************************************************************************)
Fatal == pc = "exited" /\ exit_code = 1

ApplianceChecked ==
    pc = "check_appliance" /\ pc' # "check_appliance" /\ diag'.kind # "Check aborted"

SymbolChecked ==
    pc = "check_symbol" /\ pc' # "check_symbol" /\ diag'.kind # "Check aborted"

PackerChecked ==
    pc = "check_packer" /\ pc' # "check_packer" /\ diag'.kind # "Check aborted"

\* the descriptor validates against the schema of its declared version
SchemaAccepts(d) ==
    /\ d.registry_version \in Range(SCHEMA_VERSIONS)
    /\ d.registry_version \in d.conforms

\* the call reads a descriptor
ReadsDescriptor == schema_files_ok /\ current.kind = "appliance"

\* the call gets past schema validation and the duplicate-ID check
ReachesImages ==
    /\ ReadsDescriptor
    /\ SchemaAccepts(current.d)
    /\ current.d.appliance_id \notin Range(APPLIANCE_IDS)

\* image record i repeats the filename or the md5sum of an earlier record
DuplicateAt(d, i) ==
    \E h \in 1..(i - 1) :
        \/ d.images[h].filename = d.images[i].filename
        \/ d.images[h].md5sum = d.images[i].md5sum

HasDuplicate(d) == \E i \in DOMAIN d.images : DuplicateAt(d, i)

\* the index of the first image record the image loop does not get past
StopIndex(d) ==
    IF ~d.has_versions THEN 1
    ELSE IF HasDuplicate(d)
    THEN CHOOSE i \in DOMAIN d.images : DuplicateAt(d, i) /\ \A h \in 1..(i - 1) : ~DuplicateAt(d, h)
    ELSE Len(d.images) + 1

\* the unused-image warnings the image loop gives before it ends
CountedUnused(d) == Cardinality({i \in UnusedImages(d) : i < StopIndex(d)})

DowngradeCount(d) == IF DowngradePossible(d) THEN 1 ELSE 0

\* the references of version j that name no declared image
Dangling(d, j) ==
    {k \in DOMAIN d.versions[j].images : d.versions[j].images[k] \notin Declared(d)}

\* version j references an image declared with its name
Belongs(d, j) ==
    \E k \in DOMAIN d.versions[j].images, i \in DOMAIN d.images :
        /\ d.images[i].filename = d.versions[j].images[k]
        /\ d.images[i].version = d.versions[j].name

BadVersion(d, j) == Dangling(d, j) # {} \/ ~Belongs(d, j)

\* no version before j ends the version loop
FirstBad(d, j) == BadVersion(d, j) /\ \A h \in 1..(j - 1) : ~BadVersion(d, h)

\* a descriptor the image and version loops end the run on
CrossCheckFails(d) ==
    /\ d.has_images
    /\ \/ ~d.has_versions
       \/ HasDuplicate(d)
       \/ \E j \in DOMAIN d.versions : BadVersion(d, j)

(* C1: a descriptor whose appliance_id is already in APPLIANCE_IDS ends the
   run with exit code 1 at that descriptor (with the duplicate-UUID
   diagnostic once its schema validation has passed), the list is left as
   it was, and the list never holds an id twice. *)
C1_DuplicateIdIsFatal ==
    /\ [](\A i, j \in DOMAIN APPLIANCE_IDS : i # j => APPLIANCE_IDS[i] # APPLIANCE_IDS[j])
    /\ [][ApplianceChecked /\ current.kind = "appliance"
             /\ current.d.appliance_id \in Range(APPLIANCE_IDS)
          => /\ Fatal'
             /\ APPLIANCE_IDS' = APPLIANCE_IDS
             /\ (schema_files_ok /\ SchemaAccepts(current.d)
                    => diag'.kind = "Duplicate appliance UUID detected")]_vars

C1_Witness ==
    /\ Fatal
    /\ diag.kind = "Duplicate appliance UUID detected"
    /\ current.d.appliance_id \in Range(APPLIANCE_IDS)
    /\ Len(APPLIANCE_IDS) = 1

(* C2 as stated: an image record whose filename or md5sum was declared by an
   image record accepted earlier in the run, in the same descriptor or in
   another file, ends the run with exit code 1. *)
C2_UniqueAcrossRun ==
    [][ApplianceChecked /\ ReachesImages /\ current.d.has_images
          /\ (\E i \in DOMAIN current.d.images :
                \/ DuplicateAt(current.d, i)
                \/ current.d.images[i].filename \in seen_filenames
                \/ current.d.images[i].md5sum \in seen_md5sums)
       => Fatal']_vars

(* C2 as amended: filenames and md5sums are unique within one descriptor.
   The first image record that repeats the filename or the md5sum of an
   earlier record of the same descriptor ends the run with exit code 1 and
   the duplicate diagnostic for it; the registries are local to one call of
   check_appliance, so a descriptor without such a record never gets a
   duplicate diagnostic, whatever earlier files declared. *)
C2_UniqueWithinDescriptor ==
    [][ApplianceChecked /\ ReachesImages /\ current.d.has_images
       => LET d == current.d IN
          /\ HasDuplicate(d) /\ d.has_versions
                => /\ Fatal'
                   /\ diag'.kind \in {"Duplicate image filename", "Duplicate image md5sum"}
                   /\ diag'.image = d.images[StopIndex(d)].filename
                   /\ diag'.kind = "Duplicate image filename"
                        <=> \E h \in 1..(StopIndex(d) - 1) :
                                d.images[h].filename = d.images[StopIndex(d)].filename
          /\ ~HasDuplicate(d)
                => diag'.kind \notin {"Duplicate image filename", "Duplicate image md5sum"}
          /\ ~CrossCheckFails(d) => ~Fatal' /\ pc' = "appliances"]_vars

C2_Witness ==
    /\ Fatal
    /\ diag.kind = "Duplicate image md5sum"
    /\ current.d.images[1].md5sum = current.d.images[2].md5sum
    /\ current.d.images[1].filename # current.d.images[2].filename

(* C3 as stated: a descriptor past schema validation and the duplicate-ID
   check with a version that references a filename no image record declares
   ends the run with exit code 1 and the Missing relation diagnostic. *)
C3_DanglingAlwaysReported ==
    [][ApplianceChecked /\ ReachesImages
          /\ (\E j \in DOMAIN current.d.versions : Dangling(current.d, j) # {})
       => Fatal' /\ diag'.kind = "Missing relation"]_vars

(* C3 as amended: for a descriptor that declares images (has the images
   key) and is past schema validation and the duplicate-ID check, a version
   that references an undeclared filename ends the run with exit code 1;
   the diagnostic is Missing relation, for the first such filename of the
   first version the version loop stops at, unless a duplicate image record
   ended the run before.  A descriptor without the images key is not
   cross-checked: the call returns. *)
C3_DanglingReportedWhenImagesDeclared ==
    [][ApplianceChecked /\ ReachesImages
       => LET d == current.d IN
          /\ d.has_images /\ (\E j \in DOMAIN d.versions : Dangling(d, j) # {})
                => /\ Fatal'
                   /\ \A j \in DOMAIN d.versions :
                        ~HasDuplicate(d) /\ FirstBad(d, j) /\ Dangling(d, j) # {}
                        => diag' = Diag("Missing relation",
                                        d.versions[j].images[
                                            CHOOSE k \in Dangling(d, j) :
                                                \A h \in Dangling(d, j) : k <= h],
                                        d.versions[j].name)
          /\ diag'.kind = "Missing relation"
                => \E j \in DOMAIN d.versions : Dangling(d, j) # {}
          /\ ~d.has_images => ~Fatal' /\ pc' = "appliances"]_vars

C3_Witness ==
    /\ Fatal
    /\ diag.kind = "Missing relation"
    /\ current.d.has_images
    /\ diag.image \notin Declared(current.d)
    /\ Len(current.d.versions[1].images) = 2
    /\ current.d.versions[1].images[1] \in Declared(current.d)
    /\ diag.image = current.d.versions[1].images[2]

(* C4: every image record the image loop gets to whose filename no version
   references adds exactly one to warnings, and it ends nothing: when no
   hard error of the cross-check is present, the call returns, the run goes
   on to the next file, and warnings has grown by exactly the number of
   unused image records (plus the downgrade warning, if any). *)
C4_UnusedImageOnlyWarns ==
    [][ApplianceChecked /\ ReachesImages /\ current.d.has_images
       => LET d == current.d IN
          /\ warnings' = warnings + DowngradeCount(d) + CountedUnused(d)
          /\ ~CrossCheckFails(d)
                => /\ pc' = "appliances"
                   /\ ~Fatal'
                   /\ warnings' = warnings + DowngradeCount(d) + Cardinality(UnusedImages(d))]_vars

C4_Witness ==
    /\ pc = "appliances"
    /\ advisories.unused = 1
    /\ warnings = 1
    /\ Len(APPLIANCE_IDS) = 1
    /\ seen_filenames = Filenames

(* C5: a descriptor that validates against the schema of its declared
   version N gets exactly one downgrade warning when N is above the lowest
   supported version and its content validates against schema N-1, and none
   otherwise; either way the call goes on to the duplicate-ID check. *)
C5_DowngradeWarning ==
    [][ApplianceChecked /\ ReadsDescriptor /\ SchemaAccepts(current.d)
       => LET d == current.d
              unused == IF d.has_images /\ d.appliance_id \notin Range(APPLIANCE_IDS)
                        THEN CountedUnused(d) ELSE 0
          IN  /\ warnings' = warnings + DowngradeCount(d) + unused
              /\ d.registry_version = SCHEMA_VERSIONS[1] => warnings' = warnings + unused
              /\ IF d.appliance_id \in Range(APPLIANCE_IDS)
                 THEN Fatal' /\ diag'.kind = "Duplicate appliance UUID detected"
                 ELSE APPLIANCE_IDS' = Append(APPLIANCE_IDS, d.appliance_id)]_vars

C5_Witness ==
    /\ pc = "appliances"
    /\ advisories.downgrade = 1
    /\ warnings = 1
    /\ Len(APPLIANCE_IDS) = 2

(* C6 as stated: after no_additional_properties every dict of the document,
   at any nesting depth and under items as well, that declares properties
   carries additionalProperties. *)
C6_EverySubschemaClosed == tightened => Closed(document)

(* C7 as stated: for an icon found in the configured symbols directory, a
   missing companion licence file in that directory or a height above 70
   ends the run with exit code 1, and with the licence present there and a
   height of at most 70 check_symbol returns and the run goes on. *)
C7_SymbolCheckedWhereListed ==
    [][SymbolChecked
       => /\ ~current.listed.txt => Fatal'
          /\ current.listed.height > MAX_SYMBOL_HEIGHT => Fatal'
          /\ current.listed.txt /\ current.listed.height <= MAX_SYMBOL_HEIGHT
                => ~Fatal' /\ pc' = "symbols"]_vars

(* C8 as stated: for a child of the configured packer directory that is a
   directory, a .json file in it that does not parse ends the run with exit
   code 1; a child that is not a directory is skipped without error. *)
C8_PackerCheckedWhereListed ==
    [][PackerChecked
       => /\ current.listed.is_dir /\ "json_bad" \in current.listed.files => Fatal'
          /\ ~current.listed.is_dir => ~Fatal' /\ pc' = "packer"]_vars

(* C9: for a descriptor that declares images, a version none of whose
   referenced filenames is declared with that version's name (an empty
   mapping included) ends the run with exit code 1; the diagnostic is
   Version mismatch for the first such version unless a duplicate image
   record or a dangling reference ended the run before.  So a descriptor
   with images whose check returns has, for every version, a referenced
   image that belongs to it. *)
C9_VersionWithoutImageIsFatal ==
    [][ApplianceChecked /\ ReachesImages /\ current.d.has_images
       => LET d == current.d IN
          /\ (\E j \in DOMAIN d.versions : ~Belongs(d, j)) => Fatal'
          /\ \A j \in DOMAIN d.versions :
                ~HasDuplicate(d) /\ FirstBad(d, j) /\ Dangling(d, j) = {}
                => Fatal' /\ diag' = Diag("Version mismatch", "", d.versions[j].name)
          /\ ~Fatal' => \A j \in DOMAIN d.versions : Belongs(d, j)]_vars

C9_Witness ==
    /\ Fatal
    /\ diag.kind = "Version mismatch"
    /\ current.d.has_images
    /\ Len(current.d.images) = 1
    /\ Len(current.d.versions) = 1
    /\ current.d.versions[1].images = <<>>
    /\ current.d.images[1].version = current.d.versions[1].name

(* C10: the summary is printed only by a run whose three passes ended with
   no fatal exit and no abort; the count in it is the number of advisory
   findings of the run (one per descriptor that could be downgraded, one
   per unused image); the success message is printed exactly when that
   number is zero; and the exit code is 0 then, whatever the count. *)
C10_SummaryCountsAdvisories ==
    /\ summary # NoSummary
          => /\ pc = "exited"
             /\ exit_code = 0
             /\ diag = NoDiag
             /\ current = NoEntry
             /\ warnings = advisories.downgrade + advisories.unused
             /\ summary.count = advisories.downgrade + advisories.unused
             /\ summary.line = "Everything is ok!"
                    <=> advisories.downgrade + advisories.unused = 0
             /\ summary.line = "warning!"
                    <=> advisories.downgrade + advisories.unused # 0
    /\ pc # "exited" => exit_code = 0
    /\ pc = "exited" /\ diag.kind \in {"", "Check aborted"} => exit_code = 0
    /\ pc = "exited" /\ exit_code = 0 /\ diag = NoDiag => summary # NoSummary

C10_Witness ==
    /\ summary.line = "warning!"
    /\ summary.count = 2
    /\ advisories.downgrade = 1
    /\ advisories.unused = 1
    /\ exit_code = 0

====
